---------------------------- MODULE Spec2Model ----------------------------
(***************************************************************************)
(* MiniCenter: the k-ary fat-tree topology generator (topo/fat_tree.py,    *)
(* fat_tree.py) and the learning-switch controller (simple_controller.py). *)
(*                                                                         *)
(* SpecTopo  the fat_tree.py program: the command-line entry point, the    *)
(*           FatTreeTopo constructor, the construction of the graph, the   *)
(*           object's count properties, and the node lookups of            *)
(*           run_load_balancing_demo (load_balancing_demo.py).             *)
(* SpecCtl   SimpleController: one action per event handler, the events    *)
(*           handled one at a time, as Ryu dispatches them.                *)
(* SpecSw    SimpleController with the control channel and the flow table  *)
(*           of one switch, the messages applied in the order sent.        *)
(* SpecConc  two packet_in_handler calls of one switch with their steps    *)
(*           interleaved.                                                  *)
(***************************************************************************)
EXTENDS Integers, Sequences, FiniteSets, TLC

VARIABLES
    call,            \* how the program was entered: the script, or FatTreeTopo(k)
    pc,              \* control location of the fat_tree.py program
    k,               \* the radix: __main__'s k, then FatTreeTopo.self.k
    error,           \* the exception raised or the diagnostic printed, or "none"
    exit_status,     \* the status sys.exit was called with, or -1 while running
    nodes,           \* the graph's nodes: name -> isSwitch
    links,           \* the graph's links, in the order addLink was called
    core_switches,   \* the list _init_core_switches returned
    pods,            \* per finished pod: the lists its iteration built
    getter,          \* the read of a property of the topology object in progress or
                     \* last finished: its name, the depth of the calls, its outcome
    gets,            \* the number of net.get calls run_load_balancing_demo has made
    mac_to_port,     \* SimpleController.mac_to_port: dpid -> (MAC -> port)
    ev,              \* the event the controller handled last
    out,             \* the messages that handler passed to datapath.send_msg, in order
    learned,         \* history: per switch and MAC, the ingress port of the latest
                     \* frame from that MAC that was not dropped (0: none yet)
    chan,            \* per switch: the messages sent and not yet applied, in order
    flow_table,      \* per switch: its flow entries
    nevents,         \* the number of events handled (SpecSw bounds it)
    c_top,           \* SpecConc: self.mac_to_port as dpid -> the dict object it refers to
    c_heap,          \* SpecConc: the dict objects: id -> (MAC -> port)
    thr              \* SpecConc: per handler running packet_in_handler, its position
                     \* (the line it is about to run) and its local variables

topoVars == <<call, pc, k, error, exit_status, nodes, links, core_switches, pods,
              getter, gets>>

ctlVars == <<mac_to_port, ev, out, learned>>

swVars == <<chan, flow_table, nevents>>

concVars == <<c_top, c_heap, thr>>

vars == <<topoVars, ctlVars, swVars, concVars>>

(***************************************************************************)
(* Bounds of the model.                                                    *)
(***************************************************************************)
\* FatTreeTopo(k) is called directly with -MaxK <= k <= MaxK; the script
\* builds the topology only for |k| <= MaxK.
MaxK == 6

\* The script's argument has at most MaxArgLen characters.
MaxArgLen == 2

\* The characters an argument is made of.
ArgChars == {"-", "0", "1", "2", "4", "6", "x"}

RECURSIVE SeqsUpTo(_, _)
SeqsUpTo(S, n) ==
    IF n = 0 THEN {<<>>}
    ELSE LET shorter == SeqsUpTo(S, n - 1)
         IN  shorter \cup {Append(s, c) : s \in {t \in shorter : Len(t) = n - 1}, c \in S}

\* sys.argv[1:]: no argument, or one argument.
ArgLists == {<<>>} \cup {<<a>> : a \in SeqsUpTo(ArgChars, MaxArgLen)}

(***************************************************************************)
(* Helpers: Python's int(), range() and f-string formatting.               *)
(***************************************************************************)
DigitValue(c) ==
    CASE c = "0" -> 0 [] c = "1" -> 1 [] c = "2" -> 2 [] c = "3" -> 3
      [] c = "4" -> 4 [] c = "5" -> 5 [] c = "6" -> 6 [] c = "7" -> 7
      [] c = "8" -> 8 [] c = "9" -> 9 [] OTHER -> -1

IsDigits(s) == Len(s) > 0 /\ \A i \in 1..Len(s) : DigitValue(s[i]) >= 0

RECURSIVE DigitsValue(_)
DigitsValue(s) ==
    IF Len(s) = 0 THEN 0
    ELSE 10 * DigitsValue(SubSeq(s, 1, Len(s) - 1)) + DigitValue(s[Len(s)])

\* int(s) raises ValueError unless s is an optional sign followed by digits.
IntParses(s) ==
    \/ IsDigits(s)
    \/ Len(s) > 1 /\ s[1] = "-" /\ IsDigits(Tail(s))

IntValue(s) ==
    IF s[1] = "-" THEN 0 - DigitsValue(Tail(s)) ELSE DigitsValue(s)

DigitChar(d) ==
    CASE d = 0 -> "0" [] d = 1 -> "1" [] d = 2 -> "2" [] d = 3 -> "3"
      [] d = 4 -> "4" [] d = 5 -> "5" [] d = 6 -> "6" [] d = 7 -> "7"
      [] d = 8 -> "8" [] d = 9 -> "9"

\* str(n), as an f-string formats an integer.
RECURSIVE Str(_)
Str(n) ==
    IF n < 0 THEN "-" \o Str(0 - n)
    ELSE IF n < 10 THEN DigitChar(n) ELSE Str(n \div 10) \o DigitChar(n % 10)

\* range(n) as the 1-based index set of a list of its values (empty for n <= 0).
Range(n) == 1..(IF n < 0 THEN 0 ELSE n)

(***************************************************************************)
(* FatTreeTopo                                                             *)
(***************************************************************************)
\* The argument __init__ passes on to Topo.__init__, which calls build with it.
BuildArg == 4

\* build's check of its argument.
BuildRejects(arg) == arg % 2 # 0

\* addSwitch / addHost: the node is (re)entered with its isSwitch attribute.
AddNodes(g, names, isSwitch) ==
    [n \in DOMAIN g \cup {names[i] : i \in DOMAIN names} |->
        IF \E i \in DOMAIN names : names[i] = n THEN isSwitch ELSE g[n]]

CoreSwitchCnt(kk) == (kk \div 2) * (kk \div 2)

InitCoreSwitches(kk) ==
    [i \in Range(CoreSwitchCnt(kk)) |-> "c" \o Str(i - 1)]

\* AggrName without the multiplication by the switches per pod.
AggrNameMut(pod_index, aggr_switch_per_pod, i) == "a" \o Str(pod_index + i)
AggrName(pod_index, aggr_switch_per_pod, i) ==
    "a" \o Str(pod_index * aggr_switch_per_pod + i)

InitAggrSwitches(pod_index, aggr_switch_per_pod) ==
    [i \in Range(aggr_switch_per_pod) |->
        AggrName(pod_index, aggr_switch_per_pod, i - 1)]

InitEdgeSwitches(kk, pod_index, edge_switch_per_pod) ==
    [i \in Range(kk \div 2) |-> "e" \o Str(pod_index * edge_switch_per_pod + (i - 1))]

InitHosts(pod_index, hosts_per_pod) ==
    [i \in Range(hosts_per_pod) |-> "h" \o Str(pod_index * hosts_per_pod + (i - 1))]

\* HostIndex without the multiplication by the hosts per edge switch.
HostIndexMut(i, hosts_per_edge_switch, j) == i + j
HostIndex(i, hosts_per_edge_switch, j) == i * hosts_per_edge_switch + j

\* The links the nested loops add, in order: edge switch i (outer), host j (inner).
ConnectHostsToEdgeSwitches(hosts_per_edge_switch, edge_switches, hosts) ==
    [n \in Range(Len(edge_switches) * hosts_per_edge_switch) |->
        LET i == (n - 1) \div hosts_per_edge_switch
            j == (n - 1) % hosts_per_edge_switch
        IN  <<hosts[HostIndex(i, hosts_per_edge_switch, j) + 1], edge_switches[i + 1]>>]

ConnectAggrToEdge(edge_switches, aggr_switches) ==
    [n \in Range(Len(edge_switches) * Len(aggr_switches)) |->
        LET e == (n - 1) \div Len(aggr_switches)
            a == (n - 1) % Len(aggr_switches)
        IN  <<edge_switches[e + 1], aggr_switches[a + 1]>>]

\* CoreIndex wrapping around in the first group of core switches.
CoreIndexMut(kk, i, j) == (i + j) % (kk \div 2)
CoreIndex(kk, i, j) == i * (kk \div 2) + j

ConnectAggrToCore(kk, core, aggr_switches) ==
    [n \in Range(Len(aggr_switches) * (kk \div 2)) |->
        LET i == (n - 1) \div (kk \div 2)
            j == (n - 1) % (kk \div 2)
        IN  <<aggr_switches[i + 1], core[CoreIndex(kk, i, j) + 1]>>]

(***************************************************************************)
(* The fat_tree.py program as a state machine.                             *)
(***************************************************************************)
\* The entries: FatTreeTopo(k) called directly, the fat_tree.py script run with
\* its arguments, and run_load_balancing_demo(k).
Calls ==
    [kind : {"ctor"}, k : (0 - MaxK)..MaxK, argv : {<<>>}]
        \cup [kind : {"main"}, k : {4}, argv : ArgLists]
        \cup [kind : {"demo"}, k : (0 - MaxK)..MaxK, argv : {<<>>}]

\* if __name__ == "__main__": parse the argument, then call run_fat_tree_stp(k).
Main ==
    /\ pc = "main"
    /\ IF Len(call.argv) > 0
       THEN IF IntParses(call.argv[1])
            THEN IF IntValue(call.argv[1]) % 2 # 0
                 THEN /\ k' = IntValue(call.argv[1])
                      /\ error' = "Error: k must be an even number"
                      /\ exit_status' = 1
                      /\ pc' = "exited"
                 ELSE /\ k' = IntValue(call.argv[1])
                      /\ pc' = "run"
                      /\ UNCHANGED <<error, exit_status>>
            ELSE /\ error' = "Error: Invalid value for k"
                 /\ exit_status' = 1
                 /\ pc' = "exited"
                 /\ UNCHANGED k
       ELSE /\ pc' = "run"
            /\ UNCHANGED <<k, error, exit_status>>
    /\ UNCHANGED <<call, nodes, links, core_switches, pods>>
    /\ UNCHANGED <<getter, gets, ctlVars, swVars, concVars>>

\* run_fat_tree_stp up to topo = FatTreeTopo(k=k).
RunFatTreeStp ==
    /\ pc = "run"
    /\ k \in (0 - MaxK)..MaxK
    /\ pc' = "ctor"
    /\ UNCHANGED <<call, k, error, exit_status, nodes, links, core_switches, pods>>
    /\ UNCHANGED <<getter, gets, ctlVars, swVars, concVars>>

\* __init__ (self.k = k; Topo.__init__ calls build(BuildArg)), and build up to
\* and including _init_core_switches.
Construct ==
    /\ pc = "ctor"
    /\ IF BuildRejects(BuildArg)
       THEN /\ error' = "pod count must be an even number"
            /\ pc' = "raised"
            /\ UNCHANGED <<nodes, core_switches>>
       ELSE /\ core_switches' = InitCoreSwitches(k)
            /\ nodes' = AddNodes(nodes, InitCoreSwitches(k), TRUE)
            /\ pc' = "pods"
            /\ UNCHANGED error
    /\ UNCHANGED <<call, k, exit_status, links, pods>>
    /\ UNCHANGED <<getter, gets, ctlVars, swVars, concVars>>

\* One iteration of the loop of _init_pods_and_hosts, for pod_index = Len(pods).
InitPod ==
    /\ pc = "pods"
    /\ Len(pods) < k
    /\ LET pod_index == Len(pods)
           aggr_switches_per_pod == k \div 2
           aggr_switches == InitAggrSwitches(pod_index, aggr_switches_per_pod)
           edge_switches_per_pod == k \div 2
           edge_switches == InitEdgeSwitches(k, pod_index, edge_switches_per_pod)
           hosts_per_edge_switch == k \div 2
           hosts_per_pod == edge_switches_per_pod * hosts_per_edge_switch
           hosts == InitHosts(pod_index, hosts_per_pod)
       IN  /\ nodes' = AddNodes(AddNodes(AddNodes(nodes, aggr_switches, TRUE),
                                         edge_switches, TRUE), hosts, FALSE)
           /\ links' = links
                  \o ConnectHostsToEdgeSwitches(hosts_per_edge_switch, edge_switches, hosts)
                  \o ConnectAggrToEdge(edge_switches, aggr_switches)
                  \o ConnectAggrToCore(k, core_switches, aggr_switches)
           /\ pods' = Append(pods, [aggr_switches |-> aggr_switches,
                                    edge_switches |-> edge_switches,
                                    hosts |-> hosts])
    /\ UNCHANGED <<call, pc, k, error, exit_status, core_switches>>
    /\ UNCHANGED <<getter, gets, ctlVars, swVars, concVars>>

\* The loop over the pods ends: build and the constructor return.
Built ==
    /\ pc = "pods"
    /\ Len(pods) >= k
    /\ pc' = "built"
    /\ UNCHANGED <<call, k, error, exit_status, nodes, links, core_switches, pods>>
    /\ UNCHANGED <<getter, gets, ctlVars, swVars, concVars>>

\* run_fat_tree_stp goes on with the topology: Mininet(topo=topo, ...), net.start().
NetStart ==
    /\ pc = "built"
    /\ call.kind = "main"
    /\ pc' = "started"
    /\ UNCHANGED <<call, k, error, exit_status, nodes, links, core_switches, pods>>
    /\ UNCHANGED <<getter, gets, ctlVars, swVars, concVars>>

(***************************************************************************)
(* The properties of a FatTreeTopo object, read by the code that built it.  *)
(***************************************************************************)
\* The depth of calls at which Python raises RecursionError.
RecursionLimit == 3

PropertyNames == {"core_switch_count", "aggr_switch_count", "edge_switch_count"}

NoGetter == [name |-> "none", depth |-> 0, status |-> "none", value |-> 0]

\* topo.<name>: the attribute access calls the property's getter.
ReadProperty ==
    /\ call.kind = "ctor"
    /\ pc = "built"
    /\ getter.status # "running"
    /\ \E name \in PropertyNames :
          getter' = [name |-> name, depth |-> 1, status |-> "running", value |-> 0]
    /\ UNCHANGED <<call, pc, k, error, exit_status, nodes, links, core_switches, pods, gets>>
    /\ UNCHANGED <<ctlVars, swVars, concVars>>

\* The getter of core_switch_count: return self.core_switch_count, an attribute
\* access that calls this getter again, one call deeper.
CoreSwitchCount ==
    /\ getter.name = "core_switch_count"
    /\ getter.status = "running"
    /\ IF getter.depth < RecursionLimit
       THEN getter' = [getter EXCEPT !.depth = @ + 1]
       ELSE getter' = [getter EXCEPT !.status = "RecursionError"]
    /\ UNCHANGED <<call, pc, k, error, exit_status, nodes, links, core_switches, pods, gets>>
    /\ UNCHANGED <<ctlVars, swVars, concVars>>

\* The getter of aggr_switch_count.
AggrSwitchCount ==
    /\ getter.name = "aggr_switch_count"
    /\ getter.status = "running"
    /\ getter' = [getter EXCEPT !.status = "returned", !.value = k * (k \div 2)]
    /\ UNCHANGED <<call, pc, k, error, exit_status, nodes, links, core_switches, pods, gets>>
    /\ UNCHANGED <<ctlVars, swVars, concVars>>

\* The getter of edge_switch_count.
EdgeSwitchCount ==
    /\ getter.name = "edge_switch_count"
    /\ getter.status = "running"
    /\ getter' = [getter EXCEPT !.status = "returned", !.value = k * (k \div 2)]
    /\ UNCHANGED <<call, pc, k, error, exit_status, nodes, links, core_switches, pods, gets>>
    /\ UNCHANGED <<ctlVars, swVars, concVars>>

(***************************************************************************)
(* run_load_balancing_demo(k), from the topology it built on.              *)
(***************************************************************************)
Min(a, b) == IF a < b THEN a ELSE b

\* The names the demo passes to net.get, in the order of the calls.
DemoLookups(kk) ==
    LET num_hosts == (kk * kk * kk) \div 4
        num_flows == Min(8, num_hosts \div 2)
        core_stop == Min((kk \div 2) * (kk \div 2) + 1, 5)
    IN  <<"h1", "h" \o Str(num_hosts)>>
            \o [i \in Range(num_flows) |-> "h" \o Str(i)]
            \o [i \in Range(core_stop - 1) |-> "c" \o Str(i)]

\* Mininet(topo=topo, ...), addController, net.start(), up to num_hosts.
DemoNetStart ==
    /\ pc = "built"
    /\ call.kind = "demo"
    /\ pc' = "demo"
    /\ UNCHANGED <<call, k, error, exit_status, nodes, links, core_switches, pods>>
    /\ UNCHANGED <<getter, gets, ctlVars, swVars, concVars>>

\* The next net.get(name): the node of that name, or KeyError when the network
\* has none; after the last one the demo reaches CLI(net).
DemoGet ==
    /\ pc = "demo"
    /\ gets < Len(DemoLookups(k))
    /\ IF DemoLookups(k)[gets + 1] \in DOMAIN nodes
       THEN /\ gets' = gets + 1
            /\ pc' = IF gets + 1 = Len(DemoLookups(k)) THEN "cli" ELSE "demo"
            /\ UNCHANGED error
       ELSE /\ error' = "KeyError"
            /\ pc' = "raised"
            /\ UNCHANGED gets
    /\ UNCHANGED <<call, k, exit_status, nodes, links, core_switches, pods, getter>>
    /\ UNCHANGED <<ctlVars, swVars, concVars>>

TopoNext ==
    \/ Main
    \/ RunFatTreeStp
    \/ Construct
    \/ InitPod
    \/ Built
    \/ NetStart
    \/ ReadProperty
    \/ CoreSwitchCount
    \/ AggrSwitchCount
    \/ EdgeSwitchCount
    \/ DemoNetStart
    \/ DemoGet

(***************************************************************************)
(* SimpleController: the values of the OpenFlow 1.3 protocol it uses.      *)
(* Port and buffer numbers above 0x7fffffff are written as the 32-bit      *)
(* signed integers with the same bits.                                     *)
(***************************************************************************)
OFPP_FLOOD == -5
OFPP_CONTROLLER == -3
OFPP_ANY == -1
OFPG_ANY == -1
OFP_NO_BUFFER == -1
OFPCML_NO_BUFFER == 65535
OFPCML_MAX == 65509
ETH_TYPE_IP == 2048
ETH_TYPE_LLDP == 35020
ETH_TYPE_IPV6 == 34525

\* The switches, MAC addresses, ports, ether-types and buffer ids of the events.
NumPorts == 2
DPIDs == {1, 2}
MACs == {1, 2}
Ports == 1..NumPorts
EtherTypes == {ETH_TYPE_IP, ETH_TYPE_LLDP, ETH_TYPE_IPV6}
BufferIds == {OFP_NO_BUFFER, 1}

\* Python's None and a value, for an optional argument or field.
None == <<>>
Some(v) == <<v>>

\* parser.OFPMatch(**fields): the empty match is the wildcard.
OFPMatchAll == [wildcard |-> TRUE, in_port |-> 0, eth_dst |-> 0, eth_src |-> 0]
\* OFPMatch with the two addresses exchanged.
OFPMatchMut(in_port, dst, src) ==
    [wildcard |-> FALSE, in_port |-> in_port, eth_dst |-> src, eth_src |-> dst]
OFPMatch(in_port, dst, src) ==
    [wildcard |-> FALSE, in_port |-> in_port, eth_dst |-> dst, eth_src |-> src]

\* parser.OFPActionOutput(port, max_len): max_len defaults to OFPCML_MAX.
OFPActionOutput(port, max_len) == [type |-> "OUTPUT", port |-> port, max_len |-> max_len]

\* clear_flows sending nothing.
ClearFlowsMut(dpid) == <<>>

\* clear_flows: one flow-mod deleting every flow.
ClearFlows(dpid) ==
    <<[type |-> "flow_mod", datapath |-> dpid, command |-> "OFPFC_DELETE",
       out_port |-> OFPP_ANY, out_group |-> OFPG_ANY, match |-> OFPMatchAll,
       instructions |-> <<>>, priority |-> 0, hard_timeout |-> 0,
       buffer_id |-> OFP_NO_BUFFER]>>

\* if buffer_id: (None and 0 are false).
Truthy(buffer_id) == buffer_id # None /\ buffer_id[1] # 0

\* add_flow: one flow-mod adding a flow (the command defaults to OFPFC_ADD, the
\* buffer id to OFP_NO_BUFFER).
AddFlow(dpid, priority, match, actions, buffer_id, hard_timeout) ==
    <<[type |-> "flow_mod", datapath |-> dpid, command |-> "OFPFC_ADD",
       out_port |-> 0, out_group |-> 0, match |-> match,
       instructions |-> <<[type |-> "OFPIT_APPLY_ACTIONS", actions |-> actions]>>,
       priority |-> priority, hard_timeout |-> hard_timeout,
       buffer_id |-> IF Truthy(buffer_id) THEN buffer_id[1] ELSE OFP_NO_BUFFER]>>

\* switch_features_handler: the messages it sends.
SwitchFeaturesMsgs(dpid) ==
    ClearFlows(dpid)
        \o AddFlow(dpid, 0, OFPMatchAll,
                   <<OFPActionOutput(OFPP_CONTROLLER, OFPCML_NO_BUFFER)>>, None, 0)

\* if dpid not in self.mac_to_port: self.mac_to_port[dpid] = {}
InitTable(m2p, dpid) ==
    IF dpid \notin DOMAIN m2p THEN m2p @@ (dpid :> <<>>) ELSE m2p

\* The check of line 138 left out.
IsIgnoredMut(ethertype) == ethertype = ETH_TYPE_LLDP

\* The two ether-types packet_in_handler returns on.
IsIgnored(ethertype) == ethertype = ETH_TYPE_LLDP \/ ethertype = ETH_TYPE_IPV6

\* Learning that keeps the first port seen instead of overwriting.
LearnMut(m2p, dpid, src, in_port) ==
    IF src \in DOMAIN m2p[dpid] THEN m2p
    ELSE [m2p EXCEPT ![dpid] = (src :> in_port) @@ m2p[dpid]]

\* self.mac_to_port[dpid][src] = in_port
Learn(m2p, dpid, src, in_port) ==
    [m2p EXCEPT ![dpid] = (src :> in_port) @@ m2p[dpid]]

\* A lookup that never finds the destination.
OutPortMut(m2p, dpid, dst) == OFPP_FLOOD

\* The output port: the destination's learned port, or OFPP_FLOOD.
OutPort(m2p, dpid, dst) ==
    IF dst \in DOMAIN m2p[dpid] THEN m2p[dpid][dst] ELSE OFPP_FLOOD

\* A packet-out that carries msg.data whether or not the frame is buffered.
PacketOutMut(dpid, buffer_id, in_port, actions, data) ==
    <<[type |-> "packet_out", datapath |-> dpid, buffer_id |-> buffer_id,
       in_port |-> in_port, actions |-> actions, data |-> Some(data)]>>

\* parser.OFPPacketOut(...): data is msg.data only for an unbuffered frame.
PacketOut(dpid, buffer_id, in_port, actions, data) ==
    <<[type |-> "packet_out", datapath |-> dpid, buffer_id |-> buffer_id,
       in_port |-> in_port, actions |-> actions,
       data |-> IF buffer_id = OFP_NO_BUFFER THEN Some(data) ELSE None]>>

\* packet_in_handler after learning: the flow install, if any, then the packet-out.
PacketInMsgs(m2p, dpid, in_port, buffer_id, data) ==
    LET out_port == OutPort(m2p, dpid, data.dst)
        actions == <<OFPActionOutput(out_port, OFPCML_MAX)>>
    IN  (IF out_port # OFPP_FLOOD
         THEN AddFlow(dpid, 1, OFPMatch(in_port, data.dst, data.src), actions, None, 300)
         ELSE <<>>)
        \o PacketOut(dpid, buffer_id, in_port, actions, data)

\* An Ethernet frame: what packet_in_handler reads of msg.data.
Frames == [dst : MACs, src : MACs, ethertype : EtherTypes]
NoFrame == [dst |-> 0, src |-> 0, ethertype |-> 0]

FeaturesEvent(dpid) ==
    [type |-> "switch_features", dpid |-> dpid, in_port |-> 0,
     buffer_id |-> OFP_NO_BUFFER, data |-> NoFrame]
PacketInEvent(dpid, in_port, buffer_id, data) ==
    [type |-> "packet_in", dpid |-> dpid, in_port |-> in_port,
     buffer_id |-> buffer_id, data |-> data]

(***************************************************************************)
(* The controller as a state machine: one action per event handler.        *)
(***************************************************************************)
NoEvent ==
    [type |-> "none", dpid |-> 0, in_port |-> 0,
     buffer_id |-> OFP_NO_BUFFER, data |-> NoFrame]

NothingLearned == [s \in DPIDs |-> [m \in MACs |-> 0]]

\* switch_features_handler(ev) for the switch dpid.
SwitchFeaturesHandler(dpid) ==
    /\ ev' = FeaturesEvent(dpid)
    /\ out' = SwitchFeaturesMsgs(dpid)
    /\ UNCHANGED <<mac_to_port, learned>>

\* packet_in_handler(ev) for a frame data received on in_port of the switch dpid.
PacketInHandler(dpid, in_port, buffer_id, data) ==
    /\ ev' = PacketInEvent(dpid, in_port, buffer_id, data)
    /\ IF IsIgnored(data.ethertype)
       THEN /\ mac_to_port' = InitTable(mac_to_port, dpid)
            /\ out' = <<>>
            /\ UNCHANGED learned
       ELSE /\ mac_to_port' = Learn(InitTable(mac_to_port, dpid), dpid, data.src, in_port)
            /\ out' = PacketInMsgs(mac_to_port', dpid, in_port, buffer_id, data)
            /\ learned' = [learned EXCEPT ![dpid][data.src] = in_port]

CtlSwitchFeatures ==
    \E dpid \in DPIDs :
        SwitchFeaturesHandler(dpid) /\ UNCHANGED <<topoVars, swVars, concVars>>

CtlPacketIn ==
    \E dpid \in DPIDs, in_port \in Ports, buffer_id \in BufferIds, data \in Frames :
        PacketInHandler(dpid, in_port, buffer_id, data) /\ UNCHANGED <<topoVars, swVars, concVars>>

CtlNext == CtlSwitchFeatures \/ CtlPacketIn

(***************************************************************************)
(* The controller with its control channel and switch: the messages a      *)
(* handler sends are applied by the switch in the order they were sent.    *)
(***************************************************************************)
\* SpecSw follows one switch with two ports through at most MaxSwEvents events.
MaxSwEvents == 3
SwDPIDs == {1}
SwPorts == {1, 2}

\* A flow entry of the switch: what a flow-mod add leaves in the table.
FlowEntry(msg) ==
    [priority |-> msg.priority, match |-> msg.match,
     instructions |-> msg.instructions, hard_timeout |-> msg.hard_timeout]

\* The switch applies one message: a delete with the wildcard match empties the
\* table, an add replaces the entry with the same match and priority, a
\* packet-out changes no entry.
ApplyMsg(table, msg) ==
    IF msg.type # "flow_mod" THEN table
    ELSE IF msg.command = "OFPFC_DELETE"
         THEN {f \in table : ~msg.match.wildcard /\ f.match # msg.match}
         ELSE {f \in table : ~(f.match = msg.match /\ f.priority = msg.priority)}
                 \cup {FlowEntry(msg)}

SwSwitchFeatures ==
    \E dpid \in SwDPIDs :
        /\ nevents < MaxSwEvents
        /\ SwitchFeaturesHandler(dpid)
        /\ chan' = [chan EXCEPT ![dpid] = @ \o out']
        /\ nevents' = nevents + 1
        /\ UNCHANGED <<topoVars, flow_table, concVars>>

SwPacketIn ==
    \E dpid \in SwDPIDs, in_port \in SwPorts, buffer_id \in BufferIds, data \in Frames :
        /\ nevents < MaxSwEvents
        /\ PacketInHandler(dpid, in_port, buffer_id, data)
        /\ chan' = [chan EXCEPT ![dpid] = @ \o out']
        /\ nevents' = nevents + 1
        /\ UNCHANGED <<topoVars, flow_table, concVars>>

Deliver ==
    \E dpid \in SwDPIDs :
        /\ chan[dpid] # <<>>
        /\ flow_table' = [flow_table EXCEPT ![dpid] = ApplyMsg(@, Head(chan[dpid]))]
        /\ chan' = [chan EXCEPT ![dpid] = Tail(@)]
        /\ UNCHANGED <<topoVars, ctlVars, nevents, concVars>>

SwNext == SwSwitchFeatures \/ SwPacketIn \/ Deliver

(***************************************************************************)
(* Two packet_in_handler calls for frames of one switch running             *)
(* concurrently: each handler takes one step per line of the method (the   *)
(* subscript load and the store of line 146 are two steps), and the steps  *)
(* of the two interleave.  The controller itself takes no lock.            *)
(***************************************************************************)
Threads == {1, 2}

\* The switch both frames come from.
ConcDpid == CHOOSE d \in SwDPIDs : TRUE

\* The dict object self.mac_to_port[dpid] refers to before the handlers run; the
\* one handler t creates at line 127 is numbered t.
InitialDict == CHOOSE d \in {0} : d \notin Threads

\* A dict of MAC -> port: every partial map.
MacDicts ==
    UNION {[D -> Ports] : D \in SUBSET MACs}

ConcEvents ==
    {PacketInEvent(ConcDpid, p, b, d) : p \in Ports, b \in BufferIds, d \in Frames}

ThreadAt(t, line) == thr[t].pc = line

Goto(t, line) == [thr EXCEPT ![t].pc = line]

\* 126: if dpid not in self.mac_to_port:
ConcCheck(t) ==
    /\ ThreadAt(t, "126")
    /\ thr' = Goto(t, IF ConcDpid \notin DOMAIN c_top THEN "127" ELSE "130")
    /\ UNCHANGED <<c_top, c_heap>>
    /\ UNCHANGED <<topoVars, ctlVars, swVars>>

\* 127: self.mac_to_port[dpid] = {}
ConcInit(t) ==
    /\ ThreadAt(t, "127")
    /\ c_heap' = (t :> <<>>) @@ c_heap
    /\ c_top' = (ConcDpid :> t) @@ c_top
    /\ thr' = Goto(t, "130")
    /\ UNCHANGED <<topoVars, ctlVars, swVars>>

\* 130-139: parse the frame; return for LLDP and IPv6.
ConcParse(t) ==
    /\ ThreadAt(t, "130")
    /\ thr' = Goto(t, IF IsIgnored(thr[t].ev.data.ethertype) THEN "done" ELSE "146")
    /\ UNCHANGED <<c_top, c_heap>>
    /\ UNCHANGED <<topoVars, ctlVars, swVars>>

\* 146, the subscript: self.mac_to_port[dpid]
ConcLearnLoad(t) ==
    /\ ThreadAt(t, "146")
    /\ thr' = [thr EXCEPT ![t].pc = "146s", ![t].ref = c_top[ConcDpid]]
    /\ UNCHANGED <<c_top, c_heap>>
    /\ UNCHANGED <<topoVars, ctlVars, swVars>>

\* 146, the store: <that dict>[src] = in_port
ConcLearnStore(t) ==
    /\ ThreadAt(t, "146s")
    /\ c_heap' = [c_heap EXCEPT ![thr[t].ref] =
                     (thr[t].ev.data.src :> thr[t].ev.in_port) @@ @]
    /\ thr' = Goto(t, "154")
    /\ UNCHANGED c_top
    /\ UNCHANGED <<topoVars, ctlVars, swVars>>

\* 154, 159: if dst in self.mac_to_port[dpid]: ... else: out_port = OFPP_FLOOD
ConcLookup(t) ==
    /\ ThreadAt(t, "154")
    /\ IF thr[t].ev.data.dst \in DOMAIN c_heap[c_top[ConcDpid]]
       THEN thr' = Goto(t, "156")
       ELSE thr' = [thr EXCEPT ![t].pc = "161", ![t].out_port = OFPP_FLOOD]
    /\ UNCHANGED <<c_top, c_heap>>
    /\ UNCHANGED <<topoVars, ctlVars, swVars>>

\* 156: out_port = self.mac_to_port[dpid][dst] (KeyError if dst is not a key)
ConcRead(t) ==
    /\ ThreadAt(t, "156")
    /\ IF thr[t].ev.data.dst \in DOMAIN c_heap[c_top[ConcDpid]]
       THEN thr' = [thr EXCEPT ![t].pc = "161",
                               ![t].out_port = c_heap[c_top[ConcDpid]][thr[t].ev.data.dst]]
       ELSE thr' = Goto(t, "KeyError")
    /\ UNCHANGED <<c_top, c_heap>>
    /\ UNCHANGED <<topoVars, ctlVars, swVars>>

\* 161-182: the flow install, if any, and the packet-out.
ConcSend(t) ==
    /\ ThreadAt(t, "161")
    /\ LET e == thr[t].ev
           actions == <<OFPActionOutput(thr[t].out_port, OFPCML_MAX)>>
       IN  thr' = [thr EXCEPT ![t].pc = "done", ![t].out =
                    (IF thr[t].out_port # OFPP_FLOOD
                     THEN AddFlow(e.dpid, 1, OFPMatch(e.in_port, e.data.dst, e.data.src),
                                  actions, None, 300)
                     ELSE <<>>)
                    \o PacketOut(e.dpid, e.buffer_id, e.in_port, actions, e.data)]
    /\ UNCHANGED <<c_top, c_heap>>
    /\ UNCHANGED <<topoVars, ctlVars, swVars>>

ConcNext ==
    \/ \E t \in Threads : ConcCheck(t)
    \/ \E t \in Threads : ConcInit(t)
    \/ \E t \in Threads : ConcParse(t)
    \/ \E t \in Threads : ConcLearnLoad(t)
    \/ \E t \in Threads : ConcLearnStore(t)
    \/ \E t \in Threads : ConcLookup(t)
    \/ \E t \in Threads : ConcRead(t)
    \/ \E t \in Threads : ConcSend(t)

NoThreads == [t \in Threads |-> [pc |-> "none", ev |-> NoEvent, ref |-> 0,
                                 out_port |-> 0, out |-> <<>>]]

(***************************************************************************)
(* The specifications.                                                     *)
(***************************************************************************)
\* The fat_tree.py program at its entry, the controller not involved.
TopoInit ==
    /\ call \in Calls
    /\ pc = IF call.kind = "main" THEN "main" ELSE "ctor"
    /\ k = call.k
    /\ error = "none"
    /\ exit_status = -1
    /\ nodes = <<>>
    /\ links = <<>>
    /\ core_switches = <<>>
    /\ pods = <<>>
    /\ getter = NoGetter
    /\ gets = 0
    /\ mac_to_port = <<>>
    /\ ev = NoEvent
    /\ out = <<>>
    /\ learned = NothingLearned
    /\ chan = [s \in DPIDs |-> <<>>]
    /\ flow_table = [s \in DPIDs |-> {}]
    /\ nevents = 0
    /\ c_top = <<>>
    /\ c_heap = <<>>
    /\ thr = NoThreads

\* The controller at its start (self.mac_to_port = {}), the switches' tables and
\* the channels empty; the fat_tree.py program is another process, not run here.
CtlInit ==
    /\ call = [kind |-> "none", k |-> 4, argv |-> <<>>]
    /\ pc = "none"
    /\ k = 4
    /\ error = "none"
    /\ exit_status = -1
    /\ nodes = <<>>
    /\ links = <<>>
    /\ core_switches = <<>>
    /\ pods = <<>>
    /\ getter = NoGetter
    /\ gets = 0
    /\ mac_to_port = <<>>
    /\ ev = NoEvent
    /\ out = <<>>
    /\ learned = NothingLearned
    /\ chan = [s \in DPIDs |-> <<>>]
    /\ flow_table = [s \in DPIDs |-> {}]
    /\ nevents = 0
    /\ c_top = <<>>
    /\ c_heap = <<>>
    /\ thr = NoThreads

\* Two frames of the switch ConcDpid arrive; the switch has no table yet, or
\* has one with any entries.
ConcInitial ==
    /\ call = [kind |-> "none", k |-> 4, argv |-> <<>>]
    /\ pc = "none"
    /\ k = 4
    /\ error = "none"
    /\ exit_status = -1
    /\ nodes = <<>>
    /\ links = <<>>
    /\ core_switches = <<>>
    /\ pods = <<>>
    /\ getter = NoGetter
    /\ gets = 0
    /\ mac_to_port = <<>>
    /\ ev = NoEvent
    /\ out = <<>>
    /\ learned = NothingLearned
    /\ chan = [s \in DPIDs |-> <<>>]
    /\ flow_table = [s \in DPIDs |-> {}]
    /\ nevents = 0
    /\ \/ c_top = <<>> /\ c_heap = <<>>
       \/ \E d \in MacDicts :
             /\ c_top = (ConcDpid :> InitialDict)
             /\ c_heap = (InitialDict :> d)
    /\ \E e1 \in ConcEvents, e2 \in ConcEvents :
          thr = [t \in Threads |-> [pc |-> "126", ev |-> IF t = 1 THEN e1 ELSE e2,
                                    ref |-> 0, out_port |-> 0, out |-> <<>>]]

SpecTopo == TopoInit /\ [][TopoNext]_vars

SpecConc == ConcInitial /\ [][ConcNext]_vars

SpecCtl == CtlInit /\ [][CtlNext]_vars

SpecSw == CtlInit /\ [][SwNext]_vars

(***************************************************************************)
(* Properties of the fat_tree.py program.                                  *)
(***************************************************************************)
IsPositiveEven(n) == n > 0 /\ n % 2 = 0

ConstructorReturned == pc \in {"built", "started"}

BuiltForEvenK == ConstructorReturned /\ k >= 2 /\ k % 2 = 0

RECURSIVE Flatten(_, _)
Flatten(ps, f) ==
    IF Len(ps) = 0 THEN <<>>
    ELSE Flatten(SubSeq(ps, 1, Len(ps) - 1), f) \o ps[Len(ps)][f]

AllAggr == Flatten(pods, "aggr_switches")
AllEdge == Flatten(pods, "edge_switches")
AllHosts == Flatten(pods, "hosts")

Elems(s) == {s[i] : i \in DOMAIN s}

\* The numbered names prefix0 .. prefix(count-1), in order.
Numbered(prefix, s, count) ==
    /\ Len(s) = count
    /\ \A i \in 1..Len(s) : s[i] = prefix \o Str(i - 1)
    /\ Cardinality(Elems(s)) = count

\* The links with an end at node n.
LinksOf(n) == {i \in DOMAIN links : links[i][1] = n \/ links[i][2] = n}

Degree(n) == Cardinality(LinksOf(n))

Peer(i, n) == IF links[i][1] = n THEN links[i][2] ELSE links[i][1]

\* The links between node n and a node of the set S.
LinksTo(n, S) == {i \in LinksOf(n) : Peer(i, n) \in S}

\* C1: constructing FatTreeTopo(k) for a k that is not a positive even
\* integer (k = 0, 3, -2) fails with an error: the constructor never returns
\* a topology for such a k.
C1_InvalidRadixRejected ==
    (call.kind = "ctor" /\ pc = "built") => (IsPositiveEven(k) /\ error = "none")

\* C4: for every even k >= 2 the built topology has (k/2)^2 core switches,
\* k*(k/2) aggregation switches, k*(k/2) edge switches and k^3/4 hosts, named
\* c, a, e, h followed by 0..count-1 and pairwise distinct.
C4_NodeCounts ==
    BuiltForEvenK =>
        /\ Numbered("c", core_switches, (k \div 2) * (k \div 2))
        /\ Numbered("a", AllAggr, k * (k \div 2))
        /\ Numbered("e", AllEdge, k * (k \div 2))
        /\ Numbered("h", AllHosts, (k * k * k) \div 4)
        /\ DOMAIN nodes = Elems(core_switches) \cup Elems(AllAggr)
                            \cup Elems(AllEdge) \cup Elems(AllHosts)
        /\ Cardinality(DOMAIN nodes) =
              (k \div 2) * (k \div 2) + 2 * (k * (k \div 2)) + (k * k * k) \div 4
        /\ \A n \in DOMAIN nodes : nodes[n] = (n \notin Elems(AllHosts))

C4_Witness == pc = "built" /\ k = 4 /\ Len(AllHosts) = 16 /\ Len(core_switches) = 4

\* C5: in a topology built for an even k >= 2 every host has degree 1, its
\* link going to an edge switch of its own pod, and every edge, aggregation
\* and core switch has degree k.
C5_Degrees ==
    BuiltForEvenK =>
        /\ \A p \in DOMAIN pods : \A i \in DOMAIN pods[p].hosts :
              LET h == pods[p].hosts[i]
              IN  /\ Degree(h) = 1
                  /\ Cardinality(LinksTo(h, Elems(pods[p].edge_switches))) = 1
        /\ \A n \in Elems(AllEdge) \cup Elems(AllAggr) \cup Elems(core_switches) :
              Degree(n) = k

C5_Witness ==
    /\ pc = "built" /\ k = 4 /\ Len(links) = 48
    /\ \E i \in DOMAIN links : links[i] = <<"h15", "e7">>

\* C6: in a topology built for an even k >= 2 the aggregation switch with
\* pod-local index i links to exactly the core switches i*(k/2) ..
\* (i+1)*(k/2)-1, in every pod, so each core switch has exactly k aggregation
\* links, exactly one from each pod.
C6_AggrToCore ==
    BuiltForEvenK =>
        /\ \A p \in DOMAIN pods : \A i \in DOMAIN pods[p].aggr_switches :
              LET a == pods[p].aggr_switches[i]
                  group == {core_switches[c + 1] :
                               c \in ((i - 1) * (k \div 2))..(i * (k \div 2) - 1)}
              IN  /\ {Peer(l, a) : l \in LinksTo(a, Elems(core_switches))} = group
                  /\ Cardinality(LinksTo(a, Elems(core_switches))) = k \div 2
        /\ \A c \in Elems(core_switches) :
              /\ Cardinality(LinksTo(c, Elems(AllAggr))) = k
              /\ \A p \in DOMAIN pods :
                    Cardinality(LinksTo(c, Elems(pods[p].aggr_switches))) = 1

C6_Witness ==
    /\ pc = "built" /\ k = 4
    /\ \E i \in DOMAIN links : links[i] = <<"a7", "c3">>

ValidArgs(args) ==
    Len(args) = 0 \/ (IntParses(args[1]) /\ IsPositiveEven(IntValue(args[1])))

\* C9: the script goes on to build and start the network only for a positive
\* even k (4 when no argument is given); for any other argument it prints a
\* diagnostic and exits with a non-zero status before a topology is built.
C9_CliRejectsInvalid ==
    (call.kind = "main" /\ pc # "main") =>
        IF ValidArgs(call.argv)
        THEN pc # "exited" /\ IsPositiveEven(k)
        ELSE pc = "exited" /\ exit_status > 0 /\ error # "none" /\ nodes = <<>>

\* C13: reading core_switch_count of a FatTreeTopo built for an even k >= 2
\* ends by returning (k/2)^2, the number of core switches built, and never by
\* an error, just as reading aggr_switch_count or edge_switch_count returns
\* k*(k/2).
C13_CoreSwitchCountReturns ==
    (call.kind = "ctor" /\ BuiltForEvenK) =>
        /\ getter.status # "RecursionError"
        /\ getter.status = "returned" =>
              getter.value = IF getter.name = "core_switch_count"
                             THEN Len(core_switches)
                             ELSE k * (k \div 2)
        /\ (getter.status = "returned" /\ getter.name = "core_switch_count") =>
              getter.value = (k \div 2) * (k \div 2)

\* The node names the demo is to look up for radix kk: h1, h{kk^3/4},
\* h1..h{min(8, kk^3/8)} and c1..c{min((kk/2)^2, 4)}.
DemoNames(kk) ==
    {"h1", "h" \o Str((kk * kk * kk) \div 4)}
        \cup {"h" \o Str(i) : i \in 1..Min(8, (kk * kk * kk) \div 8)}
        \cup {"c" \o Str(i) : i \in 1..Min((kk \div 2) * (kk \div 2), 4)}

\* C14: for every even k >= 2, every node name run_load_balancing_demo(k)
\* looks up is the name of a node FatTreeTopo(k) created, so that no lookup of
\* the demo fails.
C14_DemoNamesExist ==
    (call.kind = "demo" /\ k >= 2 /\ k % 2 = 0 /\ pc \in {"built", "demo", "cli", "raised"}) =>
        /\ DemoNames(k) \subseteq DOMAIN nodes
        /\ error # "KeyError"

(***************************************************************************)
(* Properties of the controller.                                           *)
(***************************************************************************)
\* The entries of switch s in a MAC table m (none when s is not a key).
Entries(m, s) == IF s \in DOMAIN m THEN m[s] ELSE <<>>

\* The ether-types of the frames the controller is to drop.
IsDroppedType(ethertype) == ethertype \in {ETH_TYPE_LLDP, ETH_TYPE_IPV6}

\* The step handled a frame-in (ev' is that event): every step of SpecCtl that
\* changes the state is one handler call.
HandledFrame == ev'.type = "packet_in"

IsFlowAdd(msg) == msg.type = "flow_mod" /\ msg.command = "OFPFC_ADD"

OutputPorts(actions) == [i \in DOMAIN actions |-> actions[i].port]

\* What one step of the controller does in the two cases of the flood-then-unicast
\* scenario, for every switch s, MACs a and b and port p of the first frame.
C2_FloodThenUnicastStep ==
    \A s \in DPIDs, a \in MACs, b \in MACs, p \in Ports :
        /\ ( /\ HandledFrame
             /\ a # b
             /\ Entries(mac_to_port, s) = <<>>
             /\ ev'.dpid = s /\ ev'.in_port = p
             /\ ev'.data.src = a /\ ev'.data.dst = b
             /\ ~IsDroppedType(ev'.data.ethertype) )
           => /\ Len(out') = 1
              /\ out'[1].type = "packet_out"
              /\ OutputPorts(out'[1].actions) = <<OFPP_FLOOD>>
        /\ ( /\ HandledFrame
             /\ a # b
             /\ ev.type = "packet_in" /\ ev.dpid = s /\ ev.in_port = p
             /\ ev.data.src = a /\ ev.data.dst = b
             /\ Entries(mac_to_port, s) = (a :> p)
             /\ ev'.dpid = s
             /\ ev'.data.src = b /\ ev'.data.dst = a
             /\ ~IsDroppedType(ev'.data.ethertype) )
           => /\ Len(out') = 2
              /\ IsFlowAdd(out'[1])
              /\ OutputPorts(out'[1].instructions[1].actions) = <<p>>
              /\ out'[2].type = "packet_out"
              /\ OutputPorts(out'[2].actions) = <<p>>
              /\ p # OFPP_FLOOD

\* C2: on a switch with an empty MAC table the first frame between two
\* distinct MACs (src a, dst b; not LLDP or IPv6) yields one packet-out that
\* floods and no flow install; the frame that follows in the reverse direction
\* (src b, dst a) yields a flow install whose output is a's learned port and
\* then a packet-out to that port, not a flood.
C2_FloodThenUnicast == [][C2_FloodThenUnicastStep]_vars

C2_Witness ==
    /\ ev.type = "packet_in" /\ ev.dpid = 1 /\ ev.in_port = 2
    /\ ev.data.src = 2 /\ ev.data.dst = 1
    /\ Entries(mac_to_port, 1) = (1 :> 1) @@ (2 :> 2)
    /\ Len(out) = 2 /\ IsFlowAdd(out[1])

HandledDroppedFrame == HandledFrame /\ IsDroppedType(ev'.data.ethertype)

\* C3 as stated: handling a frame-in whose ether-type is LLDP or IPv6 leaves
\* mac_to_port, its set of per-switch keys included, exactly as it was, and
\* sends no flow install and no packet-out.
C3_DroppedFrameLeavesTable ==
    [][HandledDroppedFrame => (mac_to_port' = mac_to_port /\ out' = <<>>)]_vars

\* C3 as amended: handling a frame-in whose ether-type is LLDP or IPv6 leaves
\* every MAC -> port entry as it was, the only change being that a switch with
\* no table yet gets an empty one, and sends no flow install and no packet-out.
C3_DroppedFrameLeavesEntries ==
    [][HandledDroppedFrame =>
          /\ \A s \in DPIDs : Entries(mac_to_port', s) = Entries(mac_to_port, s)
          /\ DOMAIN mac_to_port' = DOMAIN mac_to_port \cup {ev'.dpid}
          /\ out' = <<>>]_vars

C3_Witness ==
    /\ ev.type = "packet_in" /\ ev.data.ethertype = ETH_TYPE_IPV6 /\ ev.dpid = 1
    /\ Entries(mac_to_port, 1) = (1 :> 1)
    /\ out = <<>>

TableMissMod(s) ==
    [type |-> "flow_mod", datapath |-> s, command |-> "OFPFC_ADD",
     out_port |-> 0, out_group |-> 0, match |-> OFPMatchAll,
     instructions |-> <<[type |-> "OFPIT_APPLY_ACTIONS",
                         actions |-> <<[type |-> "OUTPUT", port |-> OFPP_CONTROLLER,
                                        max_len |-> OFPCML_NO_BUFFER]>>]>>,
     priority |-> 0, hard_timeout |-> 0, buffer_id |-> OFP_NO_BUFFER]

TableMissEntry ==
    [priority |-> 0, match |-> OFPMatchAll,
     instructions |-> <<[type |-> "OFPIT_APPLY_ACTIONS",
                         actions |-> <<[type |-> "OUTPUT", port |-> OFPP_CONTROLLER,
                                        max_len |-> OFPCML_NO_BUFFER]>>]>>,
     hard_timeout |-> 0]

IsDeleteAll(msg) ==
    msg.type = "flow_mod" /\ msg.command = "OFPFC_DELETE" /\ msg.match.wildcard

\* What a connect sends, and what applying the table-miss add leaves.
C7_ConnectStep ==
    /\ (ev'.type = "switch_features" /\ nevents' = nevents + 1)
          => /\ Len(out') = 2
             /\ IsDeleteAll(out'[1])
             /\ out'[2] = TableMissMod(ev'.dpid)
             /\ chan'[ev'.dpid] = chan[ev'.dpid] \o out'
    /\ \A s \in SwDPIDs :
          ( /\ chan[s] # <<>>
            /\ chan'[s] = Tail(chan[s])
            /\ Head(chan[s]) = TableMissMod(s) )
          => flow_table'[s] = {TableMissEntry}

\* C7: on every switch-features event, a reconnect after unicast rules were
\* installed included, the controller sends a delete-all flow-mod and then
\* exactly one add of the wildcard priority-0 rule that outputs to the
\* controller with no buffering; the messages being applied in order, the
\* switch's flow table holds only that rule once that add is applied, and
\* whenever the connect was the last event and nothing is in flight.
C7_ConnectResetsFlowTable ==
    /\ [][C7_ConnectStep]_vars
    /\ []((ev.type = "switch_features" /\ chan[ev.dpid] = <<>>)
             => flow_table[ev.dpid] = {TableMissEntry})

C7_Witness ==
    /\ ev.type = "switch_features" /\ ev.dpid = 1
    /\ Len(chan[1]) = 2 /\ IsDeleteAll(chan[1][1]) /\ chan[1][2] = TableMissMod(1)
    /\ \E f \in flow_table[1] : f.priority = 1 /\ f.hard_timeout = 300
    /\ TableMissEntry \in flow_table[1]

\* The entry of MAC m on switch s against the history of the frames handled.
C10_Entry(s, m) ==
    /\ (m \in DOMAIN Entries(mac_to_port, s)) <=> (learned[s][m] # 0)
    /\ m \in DOMAIN Entries(mac_to_port, s) => mac_to_port[s][m] = learned[s][m]

\* An entry stays, and changes only by a frame from m handled on s.
C10_EntryStep(s, m) ==
    m \in DOMAIN Entries(mac_to_port, s) =>
        /\ m \in DOMAIN Entries(mac_to_port', s)
        /\ mac_to_port'[s][m] # mac_to_port[s][m] =>
              /\ ev'.type = "packet_in" /\ ev'.dpid = s /\ ev'.data.src = m
              /\ ~IsDroppedType(ev'.data.ethertype)
              /\ mac_to_port'[s][m] = ev'.in_port

\* C10: for every switch s and MAC m, the table of s has an entry for m iff a
\* frame from m that was not dropped has been handled on s, and the entry is
\* the ingress port of the latest such frame; an entry is never removed, and
\* it changes only when a frame from m is handled on s (not by events of
\* other switches, not by a connect).
C10_LastWriteWins ==
    /\ [](\A s \in DPIDs, m \in MACs : C10_Entry(s, m))
    /\ [][\A s \in DPIDs, m \in MACs : C10_EntryStep(s, m)]_vars

C10_Witness ==
    /\ ev.type = "switch_features" /\ ev.dpid = 1
    /\ Entries(mac_to_port, 1) = (1 :> 2) @@ (2 :> 1)
    /\ Entries(mac_to_port, 2) = (1 :> 1)

\* The table of the switch of the frame being handled once its source is learned.
TableAfterLearning ==
    (ev'.data.src :> ev'.in_port) @@ Entries(mac_to_port, ev'.dpid)

\* The positions of the flow installs and of the packet-outs among the messages sent.
FlowInstalls(msgs) == {i \in DOMAIN msgs : IsFlowAdd(msgs[i])}
PacketOuts(msgs) == {i \in DOMAIN msgs : msgs[i].type = "packet_out"}

\* One handled frame-in: whether it installs a flow, and which.
C11_FlowInstallStep ==
    HandledFrame =>
        LET dst == ev'.data.dst
            known == /\ ~IsDroppedType(ev'.data.ethertype)
                     /\ dst \in DOMAIN TableAfterLearning
        IN  /\ (FlowInstalls(out') # {}) <=> known
            /\ \A i \in DOMAIN out' : out'[i].type = "flow_mod" => IsFlowAdd(out'[i])
            /\ known =>
                  /\ Cardinality(FlowInstalls(out')) = 1
                  /\ \A i \in FlowInstalls(out') :
                        /\ out'[i].datapath = ev'.dpid
                        /\ out'[i].match =
                              [wildcard |-> FALSE, in_port |-> ev'.in_port,
                               eth_dst |-> dst, eth_src |-> ev'.data.src]
                        /\ Len(out'[i].instructions) = 1
                        /\ out'[i].instructions[1].type = "OFPIT_APPLY_ACTIONS"
                        /\ Len(out'[i].instructions[1].actions) = 1
                        /\ out'[i].instructions[1].actions[1].type = "OUTPUT"
                        /\ out'[i].instructions[1].actions[1].port = TableAfterLearning[dst]
                        /\ out'[i].instructions[1].actions[1].port # OFPP_FLOOD
                        /\ out'[i].priority = 1
                        /\ out'[i].priority > TableMissMod(ev'.dpid).priority
                        /\ out'[i].hard_timeout = 300

\* C11: a frame-in on switch s with ingress port p, source src and destination
\* dst causes a flow install iff the frame gets as far as learning src (it is
\* not dropped as LLDP or IPv6) and dst is in the table of s once src is
\* learned; there is then exactly one install, with match (in_port = p,
\* eth_src = src, eth_dst = dst), the single action output(table[s][dst]), which
\* is never FLOOD, priority 1, above the table-miss rule's 0, and hard_timeout 300.
C11_FlowInstall == [][C11_FlowInstallStep]_vars

C11_Witness ==
    /\ ev.type = "packet_in" /\ ev.dpid = 2 /\ ev.in_port = 1
    /\ ev.data.src = 1 /\ ev.data.dst = 2 /\ ev.data.ethertype = ETH_TYPE_IP
    /\ Entries(mac_to_port, 2) = (1 :> 1) @@ (2 :> 2)
    /\ FlowInstalls(out) = {1}
    /\ out[1].match = [wildcard |-> FALSE, in_port |-> 1, eth_dst |-> 2, eth_src |-> 1]
    /\ OutputPorts(out[1].instructions[1].actions) = <<2>>
    /\ out[1].hard_timeout = 300

\* One handled frame-in that is not dropped: its packet-out.
C12_PacketOutStep ==
    (HandledFrame /\ ~IsDroppedType(ev'.data.ethertype)) =>
        LET dst == ev'.data.dst
            port == IF dst \in DOMAIN TableAfterLearning
                    THEN TableAfterLearning[dst] ELSE OFPP_FLOOD
            po == out'[Len(out')]
        IN  /\ Len(out') >= 1
            /\ PacketOuts(out') = {Len(out')}
            /\ \A i \in FlowInstalls(out') :
                  /\ i < Len(out')
                  /\ out'[i].instructions[1].actions = po.actions
            /\ po.datapath = ev'.dpid
            /\ Len(po.actions) = 1
            /\ po.actions[1].type = "OUTPUT"
            /\ po.actions[1].port = port
            /\ po.in_port = ev'.in_port
            /\ po.buffer_id = ev'.buffer_id
            /\ (po.data # None) <=> (ev'.buffer_id = OFP_NO_BUFFER)
            /\ po.data # None => po.data = <<ev'.data>>

\* C12: every frame-in that is not dropped as LLDP or IPv6 produces exactly one
\* packet-out, the last message sent for the frame and so after its flow
\* install if there is one, with the same single output action (the learned
\* port of the destination, or FLOOD) and the frame's in_port; it carries the
\* frame's bytes iff the frame was not buffered (buffer_id = OFP_NO_BUFFER), and
\* otherwise carries the frame's buffer id and no bytes.
C12_PacketOut == [][C12_PacketOutStep]_vars

C12_Witness ==
    /\ ev.type = "packet_in" /\ ev.dpid = 1 /\ ev.buffer_id = 1
    /\ ev.data.src = 2 /\ ev.data.dst = 1 /\ ev.in_port = 2
    /\ Len(out) = 2 /\ IsFlowAdd(out[1])
    /\ out[2].type = "packet_out" /\ out[2].buffer_id = 1 /\ out[2].data = None
    /\ OutputPorts(out[2].actions) = <<1>>

(***************************************************************************)
(* Properties of the concurrent handlers.                                  *)
(***************************************************************************)
ConcTable == Entries([s \in DOMAIN c_top |-> c_heap[c_top[s]]], ConcDpid)

Learns(t) == ~IsDroppedType(thr[t].ev.data.ethertype)

=============================================================================
